---- MODULE Spec2Model ----
(***************************************************************************)
(* The viewport-driven fire-detection synchronisation of the WildGuard     *)
(* front end: the WildfireDetection component                              *)
(* (frontend/src/components/WildfireDetection.js) mounted on a Leaflet     *)
(* map, its debounce timer, its backend requests, the normalisation of     *)
(* the detections and the marker / heatmap layers it puts on the map.      *)
(*                                                                         *)
(* Coordinates are integers in micro-degrees (degrees * 10^6); confidence  *)
(* is in percent; a request radius is in tenths of a kilometre.  The       *)
(* module also covers the colour classifiers (utils/geoutils.js and the    *)
(* component's getFireIcon), the request body built from the map's zoom,   *)
(* and the part of App.js around the component: search, voice              *)
(* transcription, the analysis request and what App renders.  The older    *)
(* WildfireDetection kept in src/App.js has no heatmap and builds its      *)
(* request from the bounds state; no application mounts it and, but for    *)
(* its legend, it is not modelled.                                         *)
(***************************************************************************)
EXTENDS Integers, Sequences, FiniteSets, TLC

(***************************************************************************)
(* Bounds of the model.                                                    *)
(***************************************************************************)
MaxEvents == 2        \* bounds-change events (mount included) per behaviour
MaxLen == 2           \* longest fire_detections list of a response
DebounceTicks == 2    \* clock ticks that make up the 500 ms debounce delay
MaxRawLen == 2        \* longest list given to the normaliser under NormSpec
MaxOver == 10         \* how far below 0 and above 100 a classified confidence goes
MaxZoom == 18         \* highest zoom level of the map
MaxAnalyses == 2      \* analysis requests (Analyze Risk clicks) per behaviour

(***************************************************************************)
(* JavaScript values as they arrive in a backend record: a missing field   *)
(* (undefined), a number, NaN, +Infinity or a string.                      *)
(***************************************************************************)
Undef == [t |-> "undef", n |-> 0, s |-> ""]
NaN == [t |-> "nan", n |-> 0, s |-> ""]
Infinity == [t |-> "inf", n |-> 0, s |-> ""]
Num(k) == [t |-> "num", n |-> k, s |-> ""]
Str(x) == [t |-> "str", n |-> 0, s |-> x]

IsFiniteNumber(v) == v.t = "num"

\* ToBoolean: undefined, 0, NaN and "" are falsy.
Truthy(v) ==
    CASE v.t = "undef" -> FALSE
      [] v.t = "nan" -> FALSE
      [] v.t = "num" -> v.n # 0
      [] v.t = "str" -> v.s # ""
      [] OTHER -> TRUE

\* a || b
Or(a, b) == IF Truthy(a) THEN a ELSE b

\* StringToNumber on the strings of the model: a decimal literal converts
\* to its number (a coordinate literal "d.d" to micro-degrees, a confidence
\* literal to percent), the empty string to 0, anything else to NaN.
StringToNumber(x) ==
    CASE x = "" -> Num(0)
      [] x = "40.0" -> Num(40000000)
      [] x = "-100.0" -> Num(-100000000)
      [] x = "91.0" -> Num(91000000)
      [] x = "90" -> Num(90)
      [] OTHER -> NaN

\* ToNumber, applied by the relational operators to a non-number operand.
ToNumber(v) ==
    CASE v.t = "undef" -> NaN
      [] v.t = "str" -> StringToNumber(v.s)
      [] OTHER -> v

\* v >= k and v <= k for a number k, after ToNumber; false on NaN.
Geq(v, k) ==
    LET x == ToNumber(v)
    IN  CASE x.t = "num" -> x.n >= k
          [] x.t = "inf" -> TRUE
          [] OTHER -> FALSE

Leq(v, k) ==
    LET x == ToNumber(v)
    IN  CASE x.t = "num" -> x.n <= k
          [] OTHER -> FALSE

Gt(v, k) ==
    LET x == ToNumber(v)
    IN  CASE x.t = "num" -> x.n > k
          [] x.t = "inf" -> TRUE
          [] OTHER -> FALSE

(***************************************************************************)
(* Region filter.                                                          *)
(***************************************************************************)
NORTH_AMERICA_BOUNDS == <<5499550, -167276413, 83162102, -52233040>>

isInNorthAmerica(lat, lng) ==
    /\ Geq(lat, NORTH_AMERICA_BOUNDS[1])
    /\ Geq(lng, NORTH_AMERICA_BOUNDS[2])
    /\ Leq(lat, NORTH_AMERICA_BOUNDS[3])
    /\ Leq(lng, NORTH_AMERICA_BOUNDS[4])

(***************************************************************************)
(* Normalisation of a response's fire_detections (fetchFireData).          *)
(***************************************************************************)
Fire(la, lt, lo, lg, c, b) ==
    [latitude |-> la, lat |-> lt, longitude |-> lo, lng |-> lg,
     confidence |-> c, brightness |-> b]

\* the .map(...) step: spread the record, then default the four fields
withDefaults(fire) ==
    [fire EXCEPT
        !.latitude = Or(Or(fire.latitude, fire.lat), Num(0)),
        !.longitude = Or(Or(fire.longitude, fire.lng), Num(0)),
        !.confidence = Or(fire.confidence, Num(50)),
        !.brightness = Or(fire.brightness, Num(300))]

RECURSIVE FilterSeq(_, _)
FilterSeq(s, keep) ==
    IF s = <<>> THEN <<>>
    ELSE IF keep[Head(s)] THEN <<Head(s)>> \o FilterSeq(Tail(s), keep)
         ELSE FilterSeq(Tail(s), keep)

inBounds(fire) == isInNorthAmerica(fire.latitude, fire.longitude)

processedFires(fire_detections) ==
    LET mapped == [i \in 1..Len(fire_detections) |->
                      withDefaults(fire_detections[i])]
        keep == [f \in {mapped[i] : i \in 1..Len(mapped)} |-> inBounds(f)]
    IN  FilterSeq(mapped, keep)

(***************************************************************************)
(* Marker icon colour (getFireIcon) and the layers built from a            *)
(* normalised list.  A marker handle records the request whose response    *)
(* created it and the index of the detection; a heatmap handle records     *)
(* the request and the points given to L.heatLayer (the weight of a point  *)
(* is its conf / 100).                                                     *)
(***************************************************************************)
getFireIcon(confidence) ==
    IF Gt(confidence, 80) THEN "#ff0000"
    ELSE IF Gt(confidence, 60) THEN "#ff6600"
    ELSE IF Gt(confidence, 40) THEN "#ff9900"
    ELSE "#ffcc00"

\* the severity of utils/accessibilityUtils.js
getFireSeverity(fire) ==
    LET confidence == Or(fire.confidence, Num(0))
        brightness == Or(fire.brightness, Num(0))
    IN  IF Gt(confidence, 80) \/ Gt(brightness, 330) THEN "high"
        ELSE IF Gt(confidence, 50) \/ Gt(brightness, 310) THEN "medium"
        ELSE "low"

\* Math.min(100, Math.max(0, confidence || 0))
clampConfidence(confidence) ==
    LET x == ToNumber(Or(confidence, Num(0)))
    IN  CASE x.t = "num" ->
                 Num(IF x.n < 0 THEN 0 ELSE IF x.n > 100 THEN 100 ELSE x.n)
          [] x.t = "inf" -> Num(100)
          [] OTHER -> NaN

\* a classifier whose thresholds belong to the upper bucket
getFireColor_Inclusive(confidence) ==
    LET value == clampConfidence(confidence)
    IN  IF Geq(value, 80) THEN "#ff0000"
        ELSE IF Geq(value, 60) THEN "#ff6600"
        ELSE IF Geq(value, 40) THEN "#ff9900"
        ELSE IF Geq(value, 20) THEN "#ffcc00"
        ELSE "#ffff00"

\* a classifier whose two highest colours are exchanged
getFireColor_Swapped(confidence) ==
    LET value == clampConfidence(confidence)
    IN  IF Gt(value, 80) THEN "#ff6600"
        ELSE IF Gt(value, 60) THEN "#ff0000"
        ELSE IF Gt(value, 40) THEN "#ff9900"
        ELSE IF Gt(value, 20) THEN "#ffcc00"
        ELSE "#ffff00"

\* the classifier of utils/geoutils.js (the same function is in App.js)
getFireColor(confidence) ==
    LET value == clampConfidence(confidence)
    IN  IF Gt(value, 80) THEN "#ff0000"
        ELSE IF Gt(value, 60) THEN "#ff6600"
        ELSE IF Gt(value, 40) THEN "#ff9900"
        ELSE IF Gt(value, 20) THEN "#ffcc00"
        ELSE "#ffff00"

\* The legend of fire confidence levels (the WildfireDetection kept in
\* src/App.js renders it; the component in components/ renders none): the
\* colours of the entries whose labelled range contains c.
legendEntries ==
    {[color |-> "#ff0000", from |-> 80, to |-> 100],
     [color |-> "#ff6600", from |-> 60, to |-> 80],
     [color |-> "#ff9900", from |-> 40, to |-> 60],
     [color |-> "#ffcc00", from |-> 0, to |-> 40]}

legendColors(c) == {e.color : e \in {x \in legendEntries : x.from <= c /\ c <= x.to}}

\* typeof lat !== 'number' || typeof lng !== 'number' || isNaN(lat) || isNaN(lng)
invalidCoordinates(lat, lng) ==
    \/ lat.t \notin {"num", "inf"}
    \/ lng.t \notin {"num", "inf"}

\* the markers updateFireMarkers creates for fires (null entries filtered)
newMarkers(r, fires) ==
    {[req |-> r, idx |-> i,
      lat |-> Or(fires[i].latitude, fires[i].lat),
      lng |-> Or(fires[i].longitude, fires[i].lng),
      color |-> getFireIcon(Or(fires[i].confidence, Num(50)))] :
        i \in {j \in 1..Len(fires) :
                 ~invalidCoordinates(Or(fires[j].latitude, fires[j].lat),
                                     Or(fires[j].longitude, fires[j].lng))}}

\* the layer updateHeatMap creates for a non-empty fires
heatLayer(r, fires) ==
    [req |-> r,
     data |-> [i \in 1..Len(fires) |->
                  [lat |-> fires[i].latitude, lng |-> fires[i].longitude,
                   conf |-> Or(fires[i].confidence, Num(50))]]]

(***************************************************************************)
(* The request body of fetchFireData.  The radius is in tenths of a        *)
(* kilometre, rounded down: Math.pow(1.5, zoom - 5) is 3^k / 2^k for       *)
(* k = zoom - 5.                                                           *)
(***************************************************************************)
RECURSIVE Pow(_, _)
Pow(b, k) == IF k = 0 THEN 1 ELSE b * Pow(b, k - 1)

\* 1000 / Math.pow(1.5, zoom - 5)
radiusForZoom(zoom) ==
    IF zoom >= 5 THEN (10000 * Pow(2, zoom - 5)) \div Pow(3, zoom - 5)
    ELSE (10000 * Pow(3, 5 - zoom)) \div Pow(2, 5 - zoom)

\* a radius that is not capped
radius_NoCap(zoom) == radiusForZoom(zoom)

\* const radius = Math.min(500, 1000 / Math.pow(1.5, zoom - 5))
radius(zoom) ==
    IF radiusForZoom(zoom) < 5000 THEN radiusForZoom(zoom) ELSE 5000

\* { lat: center.lat, lng: center.lng, radius_km: radius }
requestData(center, zoom) ==
    [lat |-> center[1], lng |-> center[2], radius_km |-> radius(zoom)]

(***************************************************************************)
(* Inputs of the model.                                                    *)
(***************************************************************************)
Views == {"V1", "V2"}  \* viewports (centre, zoom, visible rectangle) of the map
NoBounds == "null"    \* the bounds state before the first updateBounds

\* An element of fire_detections that is null: reading a field of it throws
\* a TypeError.  It is written as a record, so that the elements of a list
\* have one shape.
NullFire ==
    LET null == [t |-> "null", n |-> 0, s |-> ""]
    IN  Fire(null, null, null, null, null, null)

\* result.fire_detections.map(fire => ...) throws
throwsTypeError(fire_detections) ==
    \E i \in 1..Len(fire_detections) : fire_detections[i] = NullFire

\* Backend records used in responses: one whose coordinates arrive as
\* strings, a well-formed detection, a null element, and a detection
\* outside the region written with the lat/lng spelling.
SampleFires == <<
    Fire(Str("40.0"), Undef, Str("-100.0"), Undef, Undef, Undef),
    Fire(Num(40000000), Undef, Num(-100000000), Undef, Num(85), Num(320)),
    NullFire,
    Fire(Undef, Num(91000000), Undef, Num(0), Num(70), Undef) >>

\* the fire_detections lists of the responses: the windows of SampleFires
FireLists ==
    {<<>>} \cup
    UNION {{SubSeq(SampleFires, i, j) :
               j \in {k \in i..Len(SampleFires) : k - i + 1 <= MaxLen}} :
           i \in 1..Len(SampleFires)}

(***************************************************************************)
(* State.                                                                  *)
(***************************************************************************)
VARIABLES
    build,          \* "es5": const compiled to var; "es2015": const kept
    phase,          \* "unmounted", "mounted", "crashed" or "removed"
    mapView,        \* the viewport the map shows now (getCenter / getZoom)
    bounds,         \* the bounds state: the viewport of the last moveend
    timers,         \* pending setTimeout(fetchFireData, 500) timers, each with
                    \* what its fetchFireData closes over
    reqs,           \* the requests issued, in order of issue
    mapMarkers,     \* fire markers on the map
    mapHeat,        \* heatmap layers on the map
    fireMarkers,    \* the fireMarkers state
    heatMapLayer,   \* the heatMapLayer state: {} is null, else {handle}
    isLoading,
    error,
    nEvents,        \* history: bounds-change events so far
    sinceEvent,     \* history: ticks since the last bounds-change event
    burstReqs,      \* history: requests issued since the current burst began
    lastFailEv,     \* history: nEvents when a request last failed, else -1
    applied,        \* history: request whose fire_detections was applied last
    applyKind,      \* history: "stale" if the callbacks of the last
                    \* application closed over an outdated state, "fresh" if
                    \* over the committed state, "repeat" if moreover they
                    \* applied the list of the fresh application before it
    processed,      \* history: the last result of processedFires
    rawIn,          \* input of the normaliser under NormSpec
    tiers,          \* under NormSpec: the marker colour and the severity of
                    \* each normalised detection
    confIn,         \* the two confidence values given to the classifiers
    classified,     \* what the classifiers returned for confIn
    viewIn,         \* the map centre and zoom given to the request builder
    requestOut,     \* the request body built for viewIn
    coords,         \* App: the coords state (the place the map is centred on)
    searchText,     \* App: the searchText state (content of the search box)
    mapInstance,    \* App: the mapInstance state: FALSE is null
    analysis,       \* App: the analysis state
    loading,        \* App: the loading state
    analyzeReqs,    \* App: bodies of the requests sent to /api/analyze
    searchEvs,      \* history: the bounds-change events a search caused,
                    \* each with the place the search found
    supported,      \* AudioRecorder: the browser has SpeechRecognition
    isListening,    \* AudioRecorder: the isListening state
    audioError,     \* AudioRecorder: the error state ("" is null)
    disabled,       \* AudioRecorder: the disabled prop (App's loading)
    recs,           \* the SpeechRecognition instances created so far: for
                    \* each the isListening its handlers close over and
                    \* the status of its session
    recognitionRef, \* recognitionRef.current: an index of recs, 0 is null
    timeoutRef,     \* the instance the pending restart timer of onend
                    \* will start, 0 if no such timer is pending
    autoClose,      \* the 30 s timer of the auto-close effect is pending
    due,            \* the dependencies changed by renders whose effects
                    \* have not run yet
    logs,           \* offlineDB: the module variable logs; each log is an
                    \* object with an identity (ref)
    nRefs,          \* the number of log objects created so far
    onLine,         \* navigator.onLine
    syncs,          \* the runs of syncObservations: position and the
                    \* array its getUnsyncedLogs call returned
    uploaded        \* history: the observations some run has uploaded

vars == <<build, phase, mapView, bounds, timers, reqs, mapMarkers,
          mapHeat, fireMarkers, heatMapLayer, isLoading, error, nEvents,
          sinceEvent, burstReqs, lastFailEv, applied, applyKind,
          processed, rawIn, tiers, confIn, classified, viewIn, requestOut,
          coords,
          searchText, mapInstance, analysis, loading, analyzeReqs,
          searchEvs, supported, isListening, audioError, disabled, recs,
          recognitionRef, timeoutRef, autoClose, due, logs, nRefs, onLine,
          syncs, uploaded>>

overlays == <<mapMarkers, mapHeat, fireMarkers, heatMapLayer>>
hist == <<lastFailEv, applied, applyKind, processed>>
pure == <<rawIn, tiers, confIn, classified, viewIn, requestOut>>
app == <<coords, searchText, mapInstance, analysis, loading, analyzeReqs,
         searchEvs>>

voice == <<supported, isListening, audioError, disabled, recs,
           recognitionRef, timeoutRef, autoClose, due>>
sync == <<logs, nRefs, onLine, syncs, uploaded>>

\* the effects flushed after a render, by the dependency that changed
Deps == {"isListening", "onTranscription", "disabled"}

\* AudioRecorder after its first render and effects, where the browser
\* has SpeechRecognition: one instance, whose handlers close over
\* isListening = false, is in recognitionRef; nothing is started
voiceIdle ==
    /\ supported = TRUE
    /\ isListening = FALSE
    /\ audioError = ""
    /\ disabled = FALSE
    /\ recs = <<[isListening |-> FALSE, status |-> "new"]>>
    /\ recognitionRef = 1
    /\ timeoutRef = 0
    /\ autoClose = FALSE
    /\ due = {}

\* the runs of syncObservations that may overlap
Runs == {"S1", "S2"}

\* offlineDB when the module is loaded: let logs = []
syncIdle ==
    /\ logs = <<>>
    /\ nRefs = 0
    /\ onLine = TRUE
    /\ syncs = [s \in Runs |-> [pc |-> "idle", logs |-> <<>>]]
    /\ uploaded = {}

\* the classifiers and the radius computation have been given no input
pureIdle ==
    /\ tiers = <<>>
    /\ confIn = <<0, 0>>
    /\ classified = [color1 |-> "", color2 |-> "", icon1 |-> "",
                     icon2 |-> "", marker |-> {}, legend |-> {}]
    /\ viewIn = [lat |-> 0, lng |-> 0, zoom |-> 0]
    /\ requestOut = [lat |-> 0, lng |-> 0, radius_km |-> 0]

\* App before the map is created: coords is the default place, nothing is
\* typed, no analysis was asked for
appInit ==
    /\ coords = "V1"
    /\ searchText = ""
    /\ mapInstance = FALSE
    /\ analysis = "null"
    /\ loading = FALSE
    /\ analyzeReqs = <<>>
    /\ searchEvs = {}

Init ==
    /\ build \in {"es5", "es2015"}
    /\ phase = "unmounted"
    /\ mapView \in Views
    /\ bounds = NoBounds
    /\ timers = {}
    /\ reqs = <<>>
    /\ mapMarkers = {}
    /\ mapHeat = {}
    /\ fireMarkers = {}
    /\ heatMapLayer = {}
    /\ isLoading = FALSE
    /\ error = ""
    /\ nEvents = 0
    /\ sinceEvent = 0
    /\ burstReqs = 0
    /\ lastFailEv = -1
    /\ applied = 0
    /\ applyKind = "none"
    /\ processed = <<>>
    /\ rawIn = <<>>
    /\ pureIdle
    /\ appInit
    /\ voiceIdle
    /\ syncIdle

(***************************************************************************)
(* Rendering.  fetchFireData is useCallback(..., [bounds, map,             *)
(* updateFireMarkers, updateHeatMap]), written above the declarations of   *)
(* updateFireMarkers and updateHeatMap.  Where the build keeps const, the  *)
(* dependency array reads them before initialisation and the render throws *)
(* a ReferenceError.  Where the build compiles const to var, both entries  *)
(* are undefined on every render, so fetchFireData is re-created only when *)
(* bounds changes and closes over the updateFireMarkers / updateHeatMap of *)
(* that render, hence over the fireMarkers / heatMapLayer of that render.  *)
(***************************************************************************)
renderThrows == build = "es2015"

\* a cleanup that leaves the timer of the previous run armed
clearTimeout_Kept(ts) == ts

\* the cleanup of the debounce effect clears the timer of the previous run
clearTimeout(ts) == {}

debounceEffect(ts, id, cb) ==
    clearTimeout(ts) \cup {[id |-> id, left |-> DebounceTicks, cb |-> cb]}

\* setBounds(b) and the render it causes: fetchFireData is re-created and
\* the debounce effect re-runs
updateBounds(v) ==
    LET cb == [bounds |-> v, fireMarkers |-> fireMarkers,
               heatMapLayer |-> heatMapLayer]
    IN  /\ bounds' = v
        /\ timers' = debounceEffect(timers, nEvents + 1, cb)
        /\ burstReqs' = IF nEvents > 0 /\ sinceEvent < DebounceTicks
                        THEN burstReqs ELSE 0
        /\ nEvents' = nEvents + 1
        /\ sinceEvent' = 0

\* a timer whose delay has elapsed runs before any later map event or clock
\* tick is dispatched
timerDue == \E t \in timers : t.left = 0

\* The map is created (App's handleMapCreated sets mapInstance) and the
\* component is mounted on it: the first render, then the effects
\* (map.on('moveend', updateBounds); updateBounds()).
Mount ==
    /\ phase = "unmounted"
    /\ mapInstance' = TRUE
    /\ IF renderThrows
       THEN /\ phase' = "crashed"
            /\ UNCHANGED <<bounds, timers, nEvents, sinceEvent,
                           burstReqs>>
       ELSE /\ phase' = "mounted"
            /\ updateBounds(mapView)
    /\ UNCHANGED <<voice, sync, build, mapView, reqs, overlays, isLoading, error, hist,
                   pure, coords, searchText, analysis, loading,
                   analyzeReqs, searchEvs>>

\* The user drags the map: the viewport changes, no moveend yet.
Pan(v) ==
    /\ phase = "mounted"
    /\ ~timerDue
    /\ v # mapView
    /\ mapView' = v
    /\ UNCHANGED <<voice, sync, build, phase, bounds, timers, reqs, overlays,
                   isLoading, error, nEvents, sinceEvent, burstReqs, hist,
                   pure, app>>

\* The map fires moveend with the viewport at v.
MoveEnd(v) ==
    /\ phase = "mounted"
    /\ ~timerDue
    /\ nEvents < MaxEvents
    /\ mapView' = v
    /\ updateBounds(v)
    /\ UNCHANGED <<voice, sync, build, phase, reqs, overlays, isLoading, error, hist,
                   pure, app>>

\* Time passes.
Tick ==
    /\ timers # {}
    /\ ~timerDue
    /\ timers' = {[t EXCEPT !.left = t.left - 1] : t \in timers}
    /\ sinceEvent' = IF sinceEvent < DebounceTicks THEN sinceEvent + 1
                     ELSE sinceEvent
    /\ UNCHANGED <<voice, sync, build, phase, mapView, bounds, reqs, overlays,
                   isLoading, error, nEvents, burstReqs, hist, pure, app>>

(***************************************************************************)
(* fetchFireData up to its await: a debounce timer fires and runs the      *)
(* fetchFireData it was armed with.  The request is built from             *)
(* map.getCenter() and map.getZoom(), read when the timer fires.  Each     *)
(* request keeps what its continuation closes over, and for the history    *)
(* the bounds state, the event count, the overlays on the map at the time  *)
(* of issue, and whether a request had failed since the last event.        *)
(***************************************************************************)
requestView(live, b) == live

TimerFire(t) ==
    /\ phase = "mounted"
    /\ t \in timers
    /\ t.left = 0
    /\ timers' = timers \ {t}
    /\ IF t.cb.bounds = NoBounds
       THEN UNCHANGED <<reqs, isLoading, error, burstReqs>>
       ELSE /\ isLoading' = TRUE
            /\ error' = ""
            /\ reqs' = Append(reqs,
                   [status |-> "inflight",
                    view |-> requestView(mapView, t.cb.bounds),
                    fireMarkers |-> t.cb.fireMarkers,
                    heatMapLayer |-> t.cb.heatMapLayer,
                    bounds |-> bounds,
                    ev |-> nEvents,
                    afterFail |-> (lastFailEv = nEvents),
                    mapMarkers |-> mapMarkers,
                    mapHeat |-> mapHeat])
            /\ burstReqs' = burstReqs + 1
    /\ UNCHANGED <<voice, sync, build, phase, mapView, bounds, overlays, nEvents,
                   sinceEvent, hist, pure, app>>

inFlight == {r \in 1..Len(reqs) : reqs[r].status = "inflight"}

\* the closure of the continuation is the committed state
freshClosure(r) ==
    /\ reqs[r].fireMarkers = fireMarkers
    /\ reqs[r].heatMapLayer = heatMapLayer

\* the request is answered: its continuation has run and its closure is
\* released
completed(r, outcome) ==
    [reqs EXCEPT ![r].status = outcome, ![r].fireMarkers = {},
                 ![r].heatMapLayer = {}, ![r].mapMarkers = {},
                 ![r].mapHeat = {}]

(***************************************************************************)
(* fetchFireData after its await.                                          *)
(***************************************************************************)
\* apiRequest rejected (network error or non-2xx status): the inner catch
RespondFail(r) ==
    /\ r \in inFlight
    /\ reqs' = completed(r, "fail")
    /\ error' = "Failed to fetch fire data"
    /\ isLoading' = FALSE
    /\ lastFailEv' = nEvents
    /\ UNCHANGED <<voice, sync, build, phase, mapView, bounds, timers, overlays,
                   nEvents, sinceEvent, burstReqs, applied, applyKind, processed,
                   pure, app>>

\* a response without fire_detections that raises no error
noFieldError_Silent == ""

\* what setError receives when the response has no fire_detections
noFieldError == "No fire data available for this area"

\* a 2xx response without fire_detections: setError, then the return
\* inside the try blocks, then the finally block
RespondNoField(r) ==
    /\ r \in inFlight
    /\ reqs' = completed(r, "nofield")
    /\ error' = noFieldError
    /\ isLoading' = FALSE
    /\ UNCHANGED <<voice, sync, build, phase, mapView, bounds, timers, overlays,
                   nEvents, sinceEvent, burstReqs, hist, pure, app>>

\* an updateFireMarkers that does not remove the existing markers
markersAfterUpdate_NoRemove(onMap, captured, created) == onMap \cup created

\* updateFireMarkers: the markers on the map afterwards, given the
\* fireMarkers the callback closes over and the markers it creates
markersAfterUpdate(onMap, captured, created) == (onMap \ captured) \cup created

\* updateHeatMap: the heatmap layers on the map afterwards, given the
\* heatMapLayer the callback closes over
heatAfterUpdate(onMap, captured, r, fires) ==
    IF Len(fires) = 0 THEN onMap \ captured
    ELSE (onMap \ captured) \cup {heatLayer(r, fires)}

\* updateHeatMap: the heatMapLayer state afterwards (no setHeatMapLayer on
\* an empty list)
heatStateAfterUpdate(state, r, fires) ==
    IF Len(fires) = 0 THEN state ELSE {heatLayer(r, fires)}

\* a dependency array of fetchFireData in which updateFireMarkers and
\* updateHeatMap change whenever fireMarkers or heatMapLayer is replaced
fetchDeps_Initialised(b, markers, heat) == <<b, markers, heat>>

\* The dependency array of fetchFireData in a render that completes, as far
\* as it can change for one map: updateFireMarkers and updateHeatMap are
\* undefined in it whatever fireMarkers and heatMapLayer are.
fetchDeps(b, markers, heat) == <<b>>

\* The render after a response has been applied: the debounce effect
\* (deps [bounds, fetchFireData]) re-runs if fetchFireData was re-created.
timersAfterRender(ts, markers, heat) ==
    IF fetchDeps(bounds, markers, heat)
           # fetchDeps(bounds, fireMarkers, heatMapLayer)
    THEN debounceEffect(ts, nEvents,
             [bounds |-> bounds, fireMarkers |-> markers,
              heatMapLayer |-> heat])
    ELSE ts

\* a 2xx response with the list fire_detections; an exception thrown while
\* the list is processed reaches the outer catch
RespondOk(r, fire_detections) ==
    /\ r \in inFlight
    /\ IF throwsTypeError(fire_detections)
       THEN /\ error' = "Failed to load fire data"
            /\ reqs' = completed(r, "threw")
            /\ UNCHANGED <<overlays, processed, applied, applyKind, timers>>
       ELSE LET fires == processedFires(fire_detections)
            IN  /\ processed' = fires
                /\ mapMarkers' = markersAfterUpdate(mapMarkers,
                                      reqs[r].fireMarkers, newMarkers(r, fires))
                /\ fireMarkers' = newMarkers(r, fires)
                /\ mapHeat' = heatAfterUpdate(mapHeat, reqs[r].heatMapLayer,
                                              r, fires)
                /\ heatMapLayer' = heatStateAfterUpdate(heatMapLayer, r, fires)
                /\ timers' = timersAfterRender(timers, newMarkers(r, fires),
                                 heatStateAfterUpdate(heatMapLayer, r, fires))
                /\ reqs' = completed(r, "ok")
                /\ applyKind' = IF ~freshClosure(r) THEN "stale"
                                ELSE IF applyKind \in {"fresh", "repeat"}
                                        /\ fires = processed
                                     THEN "repeat"
                                     ELSE "fresh"
                /\ applied' = r
                /\ UNCHANGED error
    /\ isLoading' = FALSE
    /\ UNCHANGED <<voice, sync, build, phase, mapView, bounds, nEvents,
                   sinceEvent, burstReqs, lastFailEv, pure, app>>

Next ==
    \/ Mount
    \/ \E v \in Views : Pan(v)
    \/ \E v \in Views : MoveEnd(v)
    \/ Tick
    \/ \E t \in timers : TimerFire(t)
    \/ \E r \in 1..Len(reqs) : RespondFail(r)
    \/ \E r \in 1..Len(reqs) : RespondNoField(r)
    \/ \E r \in 1..Len(reqs), l \in FireLists : RespondOk(r, l)

Spec == Init /\ [][Next]_vars

(***************************************************************************)
(* The life of an instance up to its removal.  React unmounts the instance *)
(* when App stops rendering it: fetchAnalysis does setAnalysis(null), which *)
(* removes the analysis section and the WildfireDetection in it.  The only  *)
(* cleanups the component registers are map.off('moveend', updateBounds)    *)
(* and clearTimeout(timer); nothing removes fireMarkers or heatMapLayer     *)
(* from the map, and nothing cancels a request.  The continuation of a      *)
(* request answered after the removal still runs updateFireMarkers and      *)
(* updateHeatMap on the map; its setState calls are dropped.                *)
(***************************************************************************)
Unmount ==
    /\ phase = "mounted"
    /\ phase' = "removed"
    /\ timers' = clearTimeout(timers)
    /\ UNCHANGED <<voice, sync, build, mapView, bounds, reqs, overlays, isLoading, error,
                   nEvents, sinceEvent, burstReqs, hist, pure, app>>

\* a 2xx response with the list fire_detections reaches a removed instance
RespondOkRemoved(r, fire_detections) ==
    /\ phase = "removed"
    /\ r \in inFlight
    /\ IF throwsTypeError(fire_detections)
       THEN /\ reqs' = completed(r, "threw")
            /\ UNCHANGED <<mapMarkers, mapHeat>>
       ELSE LET fires == processedFires(fire_detections)
            IN  /\ mapMarkers' = markersAfterUpdate(mapMarkers,
                                      reqs[r].fireMarkers, newMarkers(r, fires))
                /\ mapHeat' = heatAfterUpdate(mapHeat, reqs[r].heatMapLayer,
                                              r, fires)
                /\ reqs' = completed(r, "ok")
    /\ UNCHANGED <<voice, sync, build, phase, mapView, bounds, timers, fireMarkers,
                   heatMapLayer, isLoading, error, nEvents, sinceEvent,
                   burstReqs, hist, pure, app>>

\* a rejection or a response without fire_detections reaches a removed
\* instance: setError and setIsLoading are dropped
RespondErrorRemoved(r, outcome) ==
    /\ phase = "removed"
    /\ r \in inFlight
    /\ reqs' = completed(r, outcome)
    /\ UNCHANGED <<voice, sync, build, phase, mapView, bounds, timers, overlays,
                   isLoading, error, nEvents, sinceEvent, burstReqs, hist,
                   pure, app>>

LifeNext ==
    \/ Mount
    \/ \E v \in Views : Pan(v)
    \/ \E v \in Views : MoveEnd(v)
    \/ Tick
    \/ \E t \in timers : TimerFire(t)
    \/ \E r \in 1..Len(reqs) : phase = "mounted" /\ RespondFail(r)
    \/ \E r \in 1..Len(reqs) : phase = "mounted" /\ RespondNoField(r)
    \/ \E r \in 1..Len(reqs), l \in FireLists :
           phase = "mounted" /\ RespondOk(r, l)
    \/ Unmount
    \/ \E r \in 1..Len(reqs), l \in FireLists : RespondOkRemoved(r, l)
    \/ \E r \in 1..Len(reqs), outcome \in {"fail", "nofield"} :
           RespondErrorRemoved(r, outcome)

LifeSpec == Init /\ [][LifeNext]_vars

(***************************************************************************)
(* The application around the component (App.js): the search box, voice    *)
(* transcription, the Analyze Risk button and what App renders.  A place   *)
(* is named by the viewport centred on it at the zoom of the map, which    *)
(* App creates at zoom 8 and re-centres with setView(coords, getZoom()).   *)
(* App renders a WildfireDetection in the map card and a second one in the *)
(* analysis section; the overlays the model follows are those of the       *)
(* first.                                                                  *)
(***************************************************************************)
InitialZoom == 8

centerOf(v) ==
    CASE v = "V1" -> <<37774900, -122419400>>
      [] v = "V2" -> <<34052200, -118243700>>

\* the texts typed or transcribed: the names of the places, and a text the
\* geocoder finds nothing for
Texts == Views \cup {"nowhere"}
NotFound == "null"

geocodeLocation(locationText) ==
    IF locationText \in Views THEN locationText ELSE NotFound

\* the body of the detection request issued for viewport v
detectionRequest(v) == requestData(centerOf(v), InitialZoom)

\* the places where App renders <WildfireDetection map={mapInstance} />
wildfireSites ==
    IF phase = "crashed" THEN {}
    ELSE {site \in {"map card", "analysis section"} :
             /\ mapInstance
             /\ site = "analysis section" => analysis # "null"}

AppInit == Init /\ mapView = coords

\* onChange of the search box
TypeText(x) ==
    /\ phase = "mounted"
    /\ x # searchText
    /\ searchText' = x
    /\ UNCHANGED <<voice, sync, build, phase, mapView, bounds, timers, reqs, overlays,
                   isLoading, error, nEvents, sinceEvent, burstReqs, hist,
                   pure, coords, mapInstance, analysis, loading,
                   analyzeReqs, searchEvs>>

\* handleSearch after its guard, for the text it closes over: the place
\* found becomes coords, the effect of MovableMap moves the map there and
\* the map fires moveend
search(text) ==
    LET foundCoords == geocodeLocation(text)
    IN  IF foundCoords = NotFound
        THEN UNCHANGED <<coords, mapView, bounds, timers, burstReqs,
                         nEvents, sinceEvent, searchEvs>>
        ELSE /\ nEvents < MaxEvents
             /\ coords' = foundCoords
             /\ mapView' = foundCoords
             /\ updateBounds(foundCoords)
             /\ searchEvs' = searchEvs \cup
                    {[ev |-> nEvents + 1, place |-> foundCoords]}

\* the Search button or Enter in the search box
handleSearch ==
    /\ phase = "mounted"
    /\ ~timerDue
    /\ searchText # ""
    /\ search(searchText)
    /\ searchText' = ""
    /\ UNCHANGED <<voice, sync, build, phase, reqs, overlays, isLoading, error, hist,
                   pure, mapInstance, analysis, loading, analyzeReqs>>

\* AudioRecorder delivers the transcription x: setSearchText(x) and then
\* handleSearch(), which closes over the searchText of the current render
onTranscription(x) ==
    /\ phase = "mounted"
    /\ ~timerDue
    /\ ~loading
    /\ IF searchText = ""
       THEN /\ searchText' = x
            /\ UNCHANGED <<coords, mapView, bounds, timers, burstReqs,
                           nEvents, sinceEvent, searchEvs>>
       ELSE /\ search(searchText)
            /\ searchText' = ""
    /\ UNCHANGED <<voice, sync, build, phase, reqs, overlays, isLoading, error, hist,
                   pure, mapInstance, analysis, loading, analyzeReqs>>

\* the Analyze Risk button: fetchAnalysis up to its await
fetchAnalysis ==
    /\ phase = "mounted"
    /\ Len(analyzeReqs) < MaxAnalyses
    /\ loading' = TRUE
    /\ analysis' = "null"
    /\ analyzeReqs' = Append(analyzeReqs,
           [status |-> "inflight", lat |-> centerOf(coords)[1],
            lng |-> centerOf(coords)[2], radius_km |-> 500])
    /\ UNCHANGED <<voice, sync, build, phase, mapView, bounds, timers, reqs, overlays,
                   isLoading, error, nEvents, sinceEvent, burstReqs, hist,
                   pure, coords, searchText, mapInstance, searchEvs>>

\* fetchAnalysis after its await: the report, or the error object of the
\* catch block
AnalysisResponse(i, data) ==
    /\ phase = "mounted"
    /\ i \in 1..Len(analyzeReqs)
    /\ analyzeReqs[i].status = "inflight"
    /\ analyzeReqs' = [analyzeReqs EXCEPT ![i].status = "answered"]
    /\ analysis' = data
    /\ loading' = FALSE
    /\ UNCHANGED <<voice, sync, build, phase, mapView, bounds, timers, reqs, overlays,
                   isLoading, error, nEvents, sinceEvent, burstReqs, hist,
                   pure, coords, searchText, mapInstance, searchEvs>>

AppNext ==
    \/ Mount
    \/ \E x \in Texts \cup {""} : TypeText(x)
    \/ handleSearch
    \/ \E x \in Texts : onTranscription(x)
    \/ fetchAnalysis
    \/ \E i \in 1..Len(analyzeReqs), data \in {"report", "error"} :
           AnalysisResponse(i, data)
    \/ Tick
    \/ \E t \in timers : TimerFire(t)

AppSpec == AppInit /\ [][AppNext]_vars

(***************************************************************************)
(* The normaliser on its own: processedFires applied to every list of at   *)
(* most MaxRawLen backend records whose fields range over missing, zero,   *)
(* in-region, out-of-region, NaN, infinite and string values.              *)
(***************************************************************************)
LatValues ==
    {Undef, Num(0), Num(40000000), Num(91000000), NaN, Infinity,
     Str("40.0"), Str("abc")}

\* longitude / lng pairs
LngPairs ==
    {<<Num(-100000000), Undef>>, <<Str("-100.0"), Undef>>,
     <<Infinity, Undef>>, <<Undef, Num(-100000000)>>}

RawFires ==
    {Fire(la, lt, lo[1], lo[2], Num(85), Undef) :
        la \in LatValues, lt \in {Undef, Num(40000000)}, lo \in LngPairs}
    \cup
    {Fire(Num(40000000), Undef, Num(-100000000), Undef, c, b) :
        c \in {Undef, Num(0), Num(85), Str("high")},
        b \in {Undef, Num(320)}}
    \cup
    \* on and just outside the edges of the region
    {Fire(Num(NORTH_AMERICA_BOUNDS[1] - d), Undef, Num(-100000000), Undef,
          Num(85), Undef) : d \in {0, 1}}
    \cup
    {Fire(Undef, Num(40000000), Undef, Num(NORTH_AMERICA_BOUNDS[4] + d),
          Num(85), Undef) : d \in {0, 1}}

RECURSIVE SeqsUpTo(_, _)
SeqsUpTo(S, n) ==
    IF n = 0 THEN {<<>>}
    ELSE LET shorter == SeqsUpTo(S, n - 1)
         IN  shorter \cup {Append(q, x) : q \in shorter, x \in S}

NormInit ==
    /\ build = "es5"
    /\ phase = "normaliser"
    /\ mapView = "V1"
    /\ bounds = NoBounds
    /\ timers = {}
    /\ reqs = <<>>
    /\ mapMarkers = {}
    /\ mapHeat = {}
    /\ fireMarkers = {}
    /\ heatMapLayer = {}
    /\ isLoading = FALSE
    /\ error = ""
    /\ nEvents = 0
    /\ sinceEvent = 0
    /\ burstReqs = 0
    /\ lastFailEv = -1
    /\ applied = 0
    /\ applyKind = "none"
    /\ processed = <<>>
    /\ rawIn \in SeqsUpTo(RawFires, MaxRawLen)
    /\ pureIdle
    /\ appInit
    /\ voiceIdle
    /\ syncIdle

\* the colour of the marker updateFireMarkers draws for a normalised
\* detection and the severity getFireSeverity describes it with
tierOf(fire) ==
    [color |-> getFireIcon(Or(fire.confidence, Num(50))),
     severity |-> getFireSeverity(fire)]

Normalize ==
    /\ phase = "normaliser"
    /\ phase' = "normalised"
    /\ processed' = processedFires(rawIn)
    /\ tiers' = [i \in 1..Len(processedFires(rawIn)) |->
                     tierOf(processedFires(rawIn)[i])]
    /\ UNCHANGED <<voice, sync, build, mapView, bounds, timers, reqs, overlays,
                   isLoading, error, nEvents, sinceEvent, burstReqs,
                   lastFailEv, applied, applyKind, rawIn, confIn,
                   classified, viewIn, requestOut, app>>

NormNext == Normalize

NormSpec == NormInit /\ [][NormNext]_vars

(***************************************************************************)
(* The classifiers on their own: getFireColor and getFireIcon applied to   *)
(* two confidence values from -MaxOver to 100 + MaxOver, the colour of the *)
(* marker the component draws for an in-region detection with the first    *)
(* value as its confidence, and the legend colours for that value.         *)
(***************************************************************************)
ConfValues == (0 - MaxOver)..(100 + MaxOver)

\* the colours of the markers updateFireMarkers puts on the map for a
\* response whose only detection has confidence c
markerColors(c) ==
    {m.color : m \in newMarkers(1, processedFires(
        <<Fire(Num(40000000), Undef, Num(-100000000), Undef, c, Undef)>>))}

ClassInit ==
    /\ build = "es5"
    /\ phase = "classifier"
    /\ mapView = "V1"
    /\ bounds = NoBounds
    /\ timers = {}
    /\ reqs = <<>>
    /\ mapMarkers = {}
    /\ mapHeat = {}
    /\ fireMarkers = {}
    /\ heatMapLayer = {}
    /\ isLoading = FALSE
    /\ error = ""
    /\ nEvents = 0
    /\ sinceEvent = 0
    /\ burstReqs = 0
    /\ lastFailEv = -1
    /\ applied = 0
    /\ applyKind = "none"
    /\ processed = <<>>
    /\ rawIn = <<>>
    /\ tiers = <<>>
    /\ confIn \in ConfValues \X ConfValues
    /\ classified = [color1 |-> "", color2 |-> "", icon1 |-> "",
                     icon2 |-> "", marker |-> {}, legend |-> {}]
    /\ viewIn = [lat |-> 0, lng |-> 0, zoom |-> 0]
    /\ requestOut = [lat |-> 0, lng |-> 0, radius_km |-> 0]
    /\ appInit
    /\ voiceIdle
    /\ syncIdle

Classify ==
    /\ phase = "classifier"
    /\ phase' = "classified"
    /\ classified' = [color1 |-> getFireColor(Num(confIn[1])),
                      color2 |-> getFireColor(Num(confIn[2])),
                      icon1 |-> getFireIcon(Num(confIn[1])),
                      icon2 |-> getFireIcon(Num(confIn[2])),
                      marker |-> markerColors(Num(confIn[1])),
                      legend |-> legendColors(confIn[1])]
    /\ UNCHANGED <<voice, sync, build, mapView, bounds, timers, reqs, overlays,
                   isLoading, error, nEvents, sinceEvent, burstReqs, hist,
                   rawIn, tiers, confIn, viewIn, requestOut, app>>

ClassNext == Classify

ClassSpec == ClassInit /\ [][ClassNext]_vars

(***************************************************************************)
(* The request builder on its own: the body fetchFireData builds for the   *)
(* map centred on one of four places at every zoom level up to MaxZoom.    *)
(***************************************************************************)
Centers ==
    {<<37774900, -122419400>>, <<34052200, -118243700>>,
     <<49282700, -123120700>>, <<19432600, -99133200>>}

RadiusInit ==
    /\ build = "es5"
    /\ phase = "viewport"
    /\ mapView = "V1"
    /\ bounds = NoBounds
    /\ timers = {}
    /\ reqs = <<>>
    /\ mapMarkers = {}
    /\ mapHeat = {}
    /\ fireMarkers = {}
    /\ heatMapLayer = {}
    /\ isLoading = FALSE
    /\ error = ""
    /\ nEvents = 0
    /\ sinceEvent = 0
    /\ burstReqs = 0
    /\ lastFailEv = -1
    /\ applied = 0
    /\ applyKind = "none"
    /\ processed = <<>>
    /\ rawIn = <<>>
    /\ tiers = <<>>
    /\ confIn = <<0, 0>>
    /\ classified = [color1 |-> "", color2 |-> "", icon1 |-> "",
                     icon2 |-> "", marker |-> {}, legend |-> {}]
    /\ viewIn \in {[lat |-> c[1], lng |-> c[2], zoom |-> z] :
                     c \in Centers, z \in 0..MaxZoom}
    /\ requestOut = [lat |-> 0, lng |-> 0, radius_km |-> 0]
    /\ appInit
    /\ voiceIdle
    /\ syncIdle

BuildRequest ==
    /\ phase = "viewport"
    /\ phase' = "requested"
    /\ requestOut' = requestData(<<viewIn.lat, viewIn.lng>>, viewIn.zoom)
    /\ UNCHANGED <<voice, sync, build, mapView, bounds, timers, reqs, overlays,
                   isLoading, error, nEvents, sinceEvent, burstReqs, hist,
                   rawIn, tiers, confIn, classified, viewIn, app>>

RadiusNext == BuildRequest

RadiusSpec == RadiusInit /\ [][RadiusNext]_vars

(***************************************************************************)
(* AudioRecorder (AudioRecorder.js).  The recognition effect has the       *)
(* dependencies [isListening, onTranscription]: whenever one changes, its  *)
(* cleanup stops recognitionRef.current and the effect creates a new       *)
(* SpeechRecognition whose handlers close over the isListening of that     *)
(* render.  App passes an inline arrow as onTranscription, so every render *)
(* of App changes it.  A render commits at once; its effects run in a      *)
(* later step, before the next click is handled.  The session of an        *)
(* instance is "new" (never started), "listening" (started, not stopped),  *)
(* "stopping" (stop() was called, a last result may still come),           *)
(* "finishing" (a result or an error was delivered) or "ended".            *)
(***************************************************************************)
MaxRecognitions == 5

component == <<build, phase, mapView, bounds, timers, reqs, overlays,
               isLoading, error, nEvents, sinceEvent, burstReqs, hist,
               pure, app>>

VoiceInit ==
    /\ build = "es5"
    /\ phase = "voice"
    /\ mapView = "V1"
    /\ bounds = NoBounds
    /\ timers = {}
    /\ reqs = <<>>
    /\ mapMarkers = {}
    /\ mapHeat = {}
    /\ fireMarkers = {}
    /\ heatMapLayer = {}
    /\ isLoading = FALSE
    /\ error = ""
    /\ nEvents = 0
    /\ sinceEvent = 0
    /\ burstReqs = 0
    /\ lastFailEv = -1
    /\ applied = 0
    /\ applyKind = "none"
    /\ processed = <<>>
    /\ rawIn = <<>>
    /\ pureIdle
    /\ appInit
    /\ syncIdle
    /\ supported \in BOOLEAN
    /\ isListening = FALSE
    /\ audioError = IF supported THEN "" ELSE "not supported"
    /\ disabled = FALSE
    /\ recs = IF supported
              THEN <<[isListening |-> FALSE, status |-> "new"]>>
              ELSE <<>>
    /\ recognitionRef = IF supported THEN 1 ELSE 0
    /\ timeoutRef = 0
    /\ autoClose = FALSE
    /\ due = {}

\* a render may follow: the instances its effects create stay within the
\* bound
mayRender == Len(recs) + 2 <= MaxRecognitions

\* recognition.stop() on instance i of rs (recognitionRef.current may be
\* null): a started session stops, otherwise nothing happens
stop(rs, i) ==
    IF i # 0 /\ rs[i].status = "listening"
    THEN [rs EXCEPT ![i].status = "stopping"]
    ELSE rs

\* recognition.start() throws InvalidStateError on a session that is
\* started and has not ended
startThrows(rs, i) ==
    rs[i].status \in {"listening", "stopping", "finishing"}

\* the dependencies a setIsListening(v) changes
setIsListening(v) == IF v # isListening THEN {"isListening"} ELSE {}

\* the button: toggleListening
toggleListening ==
    /\ due = {}
    /\ ~disabled
    /\ mayRender
    /\ IF isListening
       THEN /\ recs' = stop(recs, recognitionRef)
            /\ isListening' = FALSE
            /\ due' = setIsListening(FALSE)
            /\ UNCHANGED audioError
       ELSE IF recognitionRef = 0 \/ startThrows(recs, recognitionRef)
            THEN /\ audioError' = "Failed to access microphone"
                 /\ UNCHANGED <<recs, isListening, due>>
            ELSE /\ audioError' = ""
                 /\ recs' = [recs EXCEPT ![recognitionRef].status =
                                             "listening"]
                 /\ isListening' = TRUE
                 /\ due' = setIsListening(TRUE)
    /\ UNCHANGED <<supported, disabled, recognitionRef, timeoutRef,
                   autoClose, sync, component>>

\* The effects of the renders since the last flush: the cleanups of the
\* effects whose dependencies changed, then those effects, in the order
\* of their declaration: the recognition effect, the disabled effect, the
\* auto-close effect.
RunEffects ==
    /\ due # {}
    /\ LET recognition == due \cap {"isListening", "onTranscription"} # {}
           stopped == IF recognition /\ supported
                      THEN stop(recs, recognitionRef) ELSE recs
           created == IF recognition /\ supported
                      THEN Append(stopped, [isListening |-> isListening,
                                            status |-> "new"])
                      ELSE stopped
           current == IF recognition /\ supported THEN Len(created)
                      ELSE recognitionRef
           disable == /\ due \cap {"disabled", "isListening"} # {}
                      /\ disabled
                      /\ isListening
       IN  /\ recs' = IF disable THEN stop(created, current) ELSE created
           /\ recognitionRef' = current
           /\ timeoutRef' = IF recognition /\ supported THEN 0
                            ELSE timeoutRef
           /\ audioError' = IF recognition /\ ~supported
                            THEN "not supported" ELSE audioError
           /\ autoClose' = IF "isListening" \in due THEN isListening
                           ELSE autoClose
           /\ isListening' = IF disable THEN FALSE ELSE isListening
           /\ due' = IF disable THEN {"isListening"} ELSE {}
    /\ UNCHANGED <<supported, disabled, sync, component>>

\* App renders again (a key typed in the search box): a new onTranscription
ParentRender ==
    /\ mayRender
    /\ "onTranscription" \notin due
    /\ due' = due \cup {"onTranscription"}
    /\ UNCHANGED <<supported, isListening, audioError, disabled, recs,
                   recognitionRef, timeoutRef, autoClose, sync, component>>

\* App's loading changes: App renders again and passes disabled = b
SetDisabled(b) ==
    /\ mayRender
    /\ b # disabled
    /\ disabled' = b
    /\ due' = due \cup {"disabled", "onTranscription"}
    /\ UNCHANGED <<supported, isListening, audioError, recs,
                   recognitionRef, timeoutRef, autoClose, sync, component>>

\* recognition.onresult of instance i with the transcript, trimmed; the
\* session of a non-continuous recognition then finishes.  onTranscription
\* makes App set searchText and render again.
onresult(i, transcript) ==
    /\ mayRender
    /\ i \in 1..Len(recs)
    /\ recs[i].status \in {"listening", "stopping"}
    /\ recs' = [recs EXCEPT ![i].status = "finishing"]
    /\ IF transcript # ""
       THEN /\ isListening' = FALSE
            /\ due' = due \cup {"onTranscription"} \cup setIsListening(FALSE)
       ELSE UNCHANGED <<isListening, due>>
    /\ UNCHANGED <<supported, audioError, disabled, recognitionRef,
                   timeoutRef, autoClose, sync, component>>

\* recognition.onerror of instance i
onerror(i) ==
    /\ mayRender
    /\ i \in 1..Len(recs)
    /\ recs[i].status \in {"listening", "stopping"}
    /\ recs' = [recs EXCEPT ![i].status = "finishing"]
    /\ audioError' = "Speech recognition error"
    /\ isListening' = FALSE
    /\ due' = due \cup setIsListening(FALSE)
    /\ UNCHANGED <<supported, disabled, recognitionRef, timeoutRef,
                   autoClose, sync, component>>

\* recognition.onend of instance i: the pending restart timer is cleared,
\* and a new one is set if the handler closes over isListening = true
onend(i) ==
    /\ i \in 1..Len(recs)
    /\ recs[i].status \in {"stopping", "finishing"}
    /\ recs' = [recs EXCEPT ![i].status = "ended"]
    /\ timeoutRef' = IF recs[i].isListening THEN i ELSE 0
    /\ UNCHANGED <<supported, isListening, audioError, disabled,
                   recognitionRef, autoClose, due, sync, component>>

\* A timer expires: the restart timer of onend (100 ms) starts its
\* instance again, or the timer of the auto-close effect (30 s) gives up.
\* Each callback closes over isListening = true.
TimerExpires(t) ==
    /\ mayRender
    /\ \/ /\ t = "restart"
          /\ timeoutRef # 0
          /\ timeoutRef' = 0
          /\ IF startThrows(recs, timeoutRef)
             THEN /\ isListening' = FALSE
                  /\ due' = due \cup setIsListening(FALSE)
                  /\ UNCHANGED recs
             ELSE /\ recs' = [recs EXCEPT ![timeoutRef].status = "listening"]
                  /\ UNCHANGED <<isListening, due>>
          /\ UNCHANGED <<audioError, autoClose>>
       \/ /\ t = "autoClose"
          /\ autoClose
          /\ autoClose' = FALSE
          /\ audioError' = "No speech detected"
          /\ isListening' = FALSE
          /\ due' = due \cup setIsListening(FALSE)
          /\ UNCHANGED <<recs, timeoutRef>>
    /\ UNCHANGED <<supported, disabled, recognitionRef, sync, component>>

VoiceNext ==
    \/ toggleListening
    \/ RunEffects
    \/ ParentRender
    \/ \E b \in BOOLEAN : SetDisabled(b)
    \/ \E i \in 1..Len(recs), transcript \in {"", "paradise"} :
           onresult(i, transcript)
    \/ \E i \in 1..Len(recs) : onerror(i)
    \/ \E i \in 1..Len(recs) : onend(i)
    \/ \E t \in {"restart", "autoClose"} : TimerExpires(t)

VoiceSpec == VoiceInit /\ [][VoiceNext]_vars

(***************************************************************************)
(* The offline log (offlineDB.js) and its sync (syncObservations).  The    *)
(* log is the module variable logs, an array of objects.  An object is     *)
(* never changed in place: markLogsAsSynced builds a new array in which    *)
(* each log that syncedLogs includes, by identity, is replaced by a new    *)
(* object with synced: true.  A log therefore carries its identity (ref),  *)
(* its content (obs) and, for the history, the order in which it was       *)
(* logged (seq).  A run of syncObservations can be interleaved with other  *)
(* code at each await: after getUnsyncedLogs, and during the upload.       *)
(***************************************************************************)
MaxLogs == 3

\* the observations logged
Observations == {"Oak", "Juniper"}

SyncInit ==
    /\ build = "es5"
    /\ phase = "sync"
    /\ mapView = "V1"
    /\ bounds = NoBounds
    /\ timers = {}
    /\ reqs = <<>>
    /\ mapMarkers = {}
    /\ mapHeat = {}
    /\ fireMarkers = {}
    /\ heatMapLayer = {}
    /\ isLoading = FALSE
    /\ error = ""
    /\ nEvents = 0
    /\ sinceEvent = 0
    /\ burstReqs = 0
    /\ lastFailEv = -1
    /\ applied = 0
    /\ applyKind = "none"
    /\ processed = <<>>
    /\ rawIn = <<>>
    /\ pureIdle
    /\ appInit
    /\ voiceIdle
    /\ logs = <<>>
    /\ nRefs = 0
    /\ onLine \in BOOLEAN
    /\ syncs = [s \in Runs |-> [pc |-> "idle", logs |-> <<>>]]
    /\ uploaded = {}

\* logs.push({...observation, timestamp: Date.now(), synced: false})
logObservation(observation) ==
    /\ Len(logs) < MaxLogs
    /\ logs' = Append(logs, [ref |-> nRefs + 1, obs |-> observation,
                             synced |-> FALSE, seq |-> Len(logs) + 1])
    /\ nRefs' = nRefs + 1
    /\ UNCHANGED <<onLine, syncs, uploaded, voice, component>>

\* logs.filter(l => !l.synced)
getUnsyncedLogs(ls) ==
    LET unsynced(l) == ~l.synced
    IN  SelectSeq(ls, unsynced)

\* an includes that compares the content of the logs
includes_ByContent(syncedLogs, l) ==
    \E i \in 1..Len(syncedLogs) : syncedLogs[i].obs = l.obs

\* syncedLogs.includes(l): the same object
includes(syncedLogs, l) ==
    \E i \in 1..Len(syncedLogs) : syncedLogs[i].ref = l.ref

\* logs.map(l => syncedLogs.includes(l) ? {...l, synced: true} : l), the
\* new objects numbered from n + 1
markLogsAsSynced(ls, syncedLogs, n) ==
    LET marked == {k \in 1..Len(ls) : includes(syncedLogs, ls[k])}
    IN  [k \in 1..Len(ls) |->
            IF k \in marked
            THEN [ls[k] EXCEPT
                    !.synced = TRUE,
                    !.ref = n + Cardinality({j \in marked : j <= k})]
            ELSE ls[k]]

\* syncObservations up to its first await: const logs = await
\* getUnsyncedLogs()
SyncFetch(s) ==
    /\ syncs[s].pc = "idle"
    /\ syncs' = [syncs EXCEPT ![s] = [pc |-> "fetched",
                                      logs |-> getUnsyncedLogs(logs)]]
    /\ UNCHANGED <<logs, nRefs, onLine, uploaded, voice, component>>

\* if (navigator.onLine && logs.length): the upload starts, or the run
\* ends
SyncCheck(s) ==
    /\ syncs[s].pc = "fetched"
    /\ IF onLine /\ Len(syncs[s].logs) > 0
       THEN /\ syncs' = [syncs EXCEPT ![s].pc = "uploading"]
            /\ uploaded' = uploaded \cup
                   {syncs[s].logs[i].seq : i \in 1..Len(syncs[s].logs)}
       ELSE /\ syncs' = [syncs EXCEPT ![s] = [pc |-> "idle",
                                              logs |-> <<>>]]
            /\ UNCHANGED uploaded
    /\ UNCHANGED <<logs, nRefs, onLine, voice, component>>

\* the upload is over: await markLogsAsSynced(logs)
SyncMark(s) ==
    /\ syncs[s].pc = "uploading"
    /\ logs' = markLogsAsSynced(logs, syncs[s].logs, nRefs)
    /\ nRefs' = nRefs + Cardinality({k \in 1..Len(logs) :
                                        includes(syncs[s].logs, logs[k])})
    /\ syncs' = [syncs EXCEPT ![s] = [pc |-> "idle", logs |-> <<>>]]
    /\ UNCHANGED <<onLine, uploaded, voice, component>>

\* the connection goes up or down
Connectivity(b) ==
    /\ b # onLine
    /\ onLine' = b
    /\ UNCHANGED <<logs, nRefs, syncs, uploaded, voice, component>>

SyncNext ==
    \/ \E o \in Observations : logObservation(o)
    \/ \E s \in Runs : SyncFetch(s)
    \/ \E s \in Runs : SyncCheck(s)
    \/ \E s \in Runs : SyncMark(s)
    \/ \E b \in BOOLEAN : Connectivity(b)

SyncSpec == SyncInit /\ [][SyncNext]_vars

(***************************************************************************)
(* Properties.                                                             *)
(***************************************************************************)
answered(r) == r \in inFlight /\ reqs'[r].status # "inflight"

handleCount == Cardinality(fireMarkers) + Cardinality(heatMapLayer)

\* C1: a response that arrives after a later request was issued is a
\* no-op: it changes neither the markers, nor the heatmap, nor the error
\* state.
C1_StaleResponseIsNoOp ==
    [][\A r \in 1..Len(reqs) :
          (answered(r) /\ r < Len(reqs)) =>
              UNCHANGED <<mapMarkers, mapHeat, fireMarkers, heatMapLayer,
                          error>>]_vars

\* C2: a burst of bounds-change events, each less than the debounce delay
\* after the previous one, triggers exactly one request (never more than
\* one, and one once the delay has elapsed), and the request is computed
\* from the viewport of the last event of the burst.
C2_DebounceOneFetchFromLastBounds ==
    /\ burstReqs <= 1
    /\ (phase = "mounted" /\ sinceEvent = DebounceTicks /\ ~timerDue)
           => burstReqs = 1
    /\ \A r \in 1..Len(reqs) : reqs[r].view = reqs[r].bounds

\* C3: at most one request is in flight.
C3_AtMostOneInFlight == Cardinality(inFlight) <= 1

\* C4: the fire markers on the map are exactly the markers held in the
\* fireMarkers state.
C4_NoOrphanedMarkers == mapMarkers = fireMarkers

\* C5: applying the same list twice in succession, each time by callbacks
\* that close over the committed state, leaves after the second application
\* the number of markers on the map, the number of heatmap layers on the
\* map and the number of handles held in the state that the first left.
C5_ReconcileIdempotent ==
    [][(applied' # applied /\ applyKind' = "repeat") =>
          /\ Cardinality(mapMarkers') = Cardinality(mapMarkers)
          /\ Cardinality(mapHeat') = Cardinality(mapHeat)
          /\ handleCount' = handleCount]_vars

\* C5 witness: a non-empty list was applied twice in succession, each time
\* by callbacks closing over the committed state.
C5_Witness ==
    /\ applyKind = "repeat"
    /\ applied = 2
    /\ fireMarkers = newMarkers(2, processed)
    /\ fireMarkers # {}
    /\ mapMarkers = fireMarkers
    /\ mapHeat = {heatLayer(2, processed)}

\* C6: at most one heatmap layer is on the map.
C6_AtMostOneHeatLayer == Cardinality(mapHeat) <= 1

\* C7: when a request fails, the error state becomes non-empty and the
\* markers and the heatmap on the map are those present when the request
\* was issued.
C7_FailureKeepsOverlays ==
    [][\A r \in 1..Len(reqs) :
          RespondFail(r) =>
              /\ error' # ""
              /\ mapMarkers' = reqs[r].mapMarkers
              /\ mapHeat' = reqs[r].mapHeat]_vars

\* C8 as stated: no request is issued after a failure before a bounds
\* change that follows the failure.
C8_NoRequestAfterFailureBeforeChange ==
    \A r \in 1..Len(reqs) : ~reqs[r].afterFail

\* C8 as amended: a request issued after a failed one is issued for a
\* bounds change that occurred after the failed request was issued.
C8_NoRetry ==
    \A i \in 1..Len(reqs) : \A j \in 1..Len(reqs) :
        (i < j /\ reqs[i].status = "fail") => reqs[j].ev > reqs[i].ev

\* C8 witness: a request failed and a later request was issued.
C8_Witness ==
    \E i \in 1..Len(reqs) : \E j \in 1..Len(reqs) :
        i < j /\ reqs[i].status = "fail"

\* C9: after a successful response with an empty fire_detections is
\* applied, no heatmap layer and no fire marker is on the map and the
\* tracked marker set is empty.
C9_EmptyResultClearsOverlays ==
    [][\A r \in 1..Len(reqs) :
          RespondOk(r, <<>>) =>
              /\ mapHeat' = {}
              /\ mapMarkers' = {}
              /\ fireMarkers' = {}]_vars

\* C10: normalisation returns no detection whose latitude or longitude is
\* not a finite number.
C10_NormalizedCoordinatesFinite ==
    \A i \in 1..Len(processed) :
        /\ IsFiniteNumber(processed[i].latitude)
        /\ IsFiniteNumber(processed[i].longitude)

\* the coordinate of a record, latitude / longitude spelling first, is a
\* pair of numbers inside the North America box, edges included
insideBox(fire) ==
    LET la == Or(fire.latitude, fire.lat)
        lo == Or(fire.longitude, fire.lng)
    IN  /\ la.t = "num" /\ lo.t = "num"
        /\ 5499550 <= la.n /\ la.n <= 83162102
        /\ -167276413 <= lo.n /\ lo.n <= -52233040

\* C11: the normalised list consists, in input order, of exactly the input
\* records whose coordinate lies inside the North America box (edges
\* included); every record outside is dropped and lowers the length of the
\* output by one.
C11_RegionFilterKeepsExactlyInside ==
    phase = "normalised" =>
        LET kept == SelectSeq(rawIn, insideBox)
        IN  /\ processed = [i \in 1..Len(kept) |-> withDefaults(kept[i])]
            /\ Len(processed) = Len(rawIn)
                   - Cardinality({i \in 1..Len(rawIn) : ~insideBox(rawIn[i])})

\* C12: the normalised confidence of a detection is 50 when its raw
\* confidence is missing or is not a number, and the raw value unchanged
\* when it is a number, 0 included.  (Stated on the lists the region filter
\* keeps whole, so that output and input positions agree.)
C12_ConfidenceDefault ==
    (phase = "normalised" /\ Len(processed) = Len(rawIn)) =>
        \A i \in 1..Len(rawIn) :
            processed[i].confidence =
                IF rawIn[i].confidence.t = "num" THEN rawIn[i].confidence
                ELSE Num(50)

\* the value classified after clamping to [0,100]
clamped(c) == IF c < 0 THEN 0 ELSE IF c > 100 THEN 100 ELSE c

\* C13: the colour of a confidence c, clamped to [0,100], is #ff0000 above
\* 80, #ff6600 in (60,80], #ff9900 in (40,60], #ffcc00 in (20,40] and
\* #ffff00 up to 20; a threshold belongs to the lower bucket, a value above
\* 100 is classified as 100 and a value below 0 as 0, and 85 is #ff0000.
C13_ClassifierTable ==
    phase = "classified" =>
        LET c == clamped(confIn[1])
            color == classified.color1
        IN  /\ c > 80 => color = "#ff0000"
            /\ (60 < c /\ c <= 80) => color = "#ff6600"
            /\ (40 < c /\ c <= 60) => color = "#ff9900"
            /\ (20 < c /\ c <= 40) => color = "#ffcc00"
            /\ c <= 20 => color = "#ffff00"
            /\ confIn[1] > 100 => color = "#ff0000"
            /\ confIn[1] < 0 => color = "#ffff00"

\* C13 witness: the threshold 80 was classified into the lower bucket.
C13_Witness ==
    /\ phase = "classified"
    /\ confIn[1] = 80
    /\ classified.color1 = "#ff6600"

\* C14: for a confidence c in [0,100], the colour of the marker the
\* component draws for a detection of confidence c is the colour
\* getFireColor returns for c, and is the colour the legend shows for the
\* range that contains c.
C14_MarkerColorIsClassifierColor ==
    (phase = "classified" /\ 0 <= confIn[1] /\ confIn[1] <= 100) =>
        /\ classified.marker = {classified.color1}
        /\ classified.legend = {classified.color1}

\* the severity rank of a colour
severityRank(color) ==
    CASE color = "#ffff00" -> 1
      [] color = "#ffcc00" -> 2
      [] color = "#ff9900" -> 3
      [] color = "#ff6600" -> 4
      [] color = "#ff0000" -> 5
      [] OTHER -> 0

\* C15: classification is monotone: for confidence values c1 <= c2 the
\* severity rank of the colour of c1 is not higher than that of the colour
\* of c2 (rank order #ffff00 < #ffcc00 < #ff9900 < #ff6600 < #ff0000), for
\* getFireColor and for getFireIcon.
C15_ClassificationMonotone ==
    (phase = "classified" /\ confIn[1] <= confIn[2]) =>
        /\ severityRank(classified.color1) >= 1
        /\ severityRank(classified.color1) <= severityRank(classified.color2)
        /\ severityRank(classified.icon1) >= 1
        /\ severityRank(classified.icon1) <= severityRank(classified.icon2)

\* C15 witness: two confidence values in different buckets were classified,
\* the lower one into the lower colour.
C15_Witness ==
    /\ phase = "classified"
    /\ confIn = <<70, 90>>
    /\ classified.color1 = "#ff6600"
    /\ classified.color2 = "#ff0000"

C17_ColdStartEmitsBounds ==
    mapInstance =>
        /\ bounds # NoBounds
        /\ nEvents >= 1
        /\ (timers # {} \/ Len(reqs) >= 1)

\* C18: at most one WildfireDetection instance is mounted on the map
\* instance, also while an analysis report is displayed.
C18_OneInstancePerMap == Cardinality(wildfireSites) <= 1

\* C19: the detection request that a search (typed or transcribed) for a
\* place results in is centred on that place and has the fixed radius of
\* 50 km, not a radius derived from the viewport.
C19_SearchRequestHasFixedRadius ==
    \A r \in 1..Len(reqs) : \A e \in searchEvs :
        reqs[r].ev = e.ev =>
            /\ detectionRequest(reqs[r].view).lat = centerOf(e.place)[1]
            /\ detectionRequest(reqs[r].view).lng = centerOf(e.place)[2]
            /\ detectionRequest(reqs[r].view).radius_km = 500

\* the elements of a list that are records
wellFormed(fire_detections) ==
    SelectSeq(fire_detections, LAMBDA fire : fire # NullFire)

\* C20: when one record of a list is malformed, only that record is
\* skipped: the markers and the heatmap committed for the response are
\* those of the other records of the list.
C20_PerRecordAtomicity ==
    [][\A r \in 1..Len(reqs) : \A l \in FireLists :
          RespondOk(r, l) =>
              LET rest == processedFires(wellFormed(l))
              IN  /\ Cardinality(fireMarkers') =
                         Cardinality(newMarkers(r, rest))
                  /\ Len(rest) > 0 => heatMapLayer' = {heatLayer(r, rest)}]_vars

\* C21: while the map is not available no request is issued, no timer is
\* armed and no marker or heatmap is touched; once the map is available the
\* component never returns to the uninitialised state, and the
\* synchronisation that was pending is performed: the component is
\* mounted and its first request is waiting on the debounce timer or has
\* been issued.
C21_IdleUntilMapThenSynchronises ==
    /\ [](~mapInstance =>
            /\ Len(reqs) = 0 /\ timers = {}
            /\ mapMarkers = {} /\ mapHeat = {}
            /\ fireMarkers = {} /\ heatMapLayer = {})
    /\ [][mapInstance => mapInstance']_vars
    /\ [](mapInstance =>
            /\ phase = "mounted"
            /\ (timers # {} \/ Len(reqs) >= 1))

\* two raw detections that differ in brightness and in nothing else
differOnlyInBrightness(f, g) ==
    f # g /\ [f EXCEPT !.brightness = g.brightness] = g

\* C22: two raw detections that differ only in brightness get the same
\* keep/drop decision from the normaliser, the same colour and the same
\* severity tier.
C22_BrightnessDoesNotClassify ==
    (/\ phase = "normalised"
     /\ Len(rawIn) = 2
     /\ differOnlyInBrightness(rawIn[1], rawIn[2])) =>
        /\ Len(processed) \in {0, 2}
        /\ Len(processed) = 2 =>
               /\ tiers[1].color = tiers[2].color
               /\ tiers[1].severity = tiers[2].severity

\* C23: a step that is not a viewport event leaves a component with no
\* debounce timer armed and no request in flight in that state, and the
\* application of a response neither arms a timer nor issues a request.
C23_ResponseSchedulesNothing ==
    [][nEvents' = nEvents =>
          /\ (timers = {} /\ inFlight = {}) =>
                 (timers' = {} /\ Len(reqs') = Len(reqs))
          /\ (\E r \in 1..Len(reqs) : answered(r)) =>
                 (timers' = timers /\ Len(reqs') = Len(reqs))]_vars

\* C23 witness: a response that put markers and a heatmap on the map has
\* been applied, no timer is armed and no request is in flight.
C23_Witness ==
    /\ applied >= 1
    /\ fireMarkers # {}
    /\ heatMapLayer # {}
    /\ timers = {}
    /\ inFlight = {}

\* C24: isLoading is true exactly when a request issued by the component
\* has not completed yet.
C24_LoadingIffInFlight == isLoading <=> (inFlight # {})

\* C25: whenever no request is in flight, the error state is non-empty
\* exactly when the request issued last failed (its fetch was rejected, its
\* response had no fire_detections field or could not be processed).
C25_ErrorReflectsLatestRequest ==
    (inFlight = {} /\ Len(reqs) >= 1) =>
        (error # "" <=>
            reqs[Len(reqs)].status \in {"fail", "nofield", "threw"})

\* C26: once an instance is removed, no marker and no heatmap layer it
\* added is on the map, and a response that arrives after the removal adds
\* no layer to the map.  (Every layer on the map of the model was added by
\* the instance.)
C26_UnmountLeavesNothing ==
    /\ [](phase = "removed" => (mapMarkers = {} /\ mapHeat = {}))
    /\ [][phase = "removed" =>
             (mapMarkers' \subseteq mapMarkers /\ mapHeat' \subseteq mapHeat)]_vars

\* C27: the heatMapLayer state holds a layer exactly when that layer is on
\* the map: a handle held by the state is on the map, and a heatmap on the
\* map is held by the state; after an empty detection list is applied the
\* state holds no handle to the removed layer.
C27_HeatHandleConsistent ==
    /\ heatMapLayer \subseteq mapHeat
    /\ mapHeat # {} => heatMapLayer # {}

\* C28: when a 2xx response without fire_detections is handled, the error
\* state becomes non-empty, isLoading becomes false, and the markers and
\* the heatmap on the map are unchanged (the response is not applied as an
\* empty detection list, which would remove them).
C28_NoFieldIsError ==
    [][\A r \in 1..Len(reqs) :
          (answered(r) /\ reqs'[r].status = "nofield") =>
              /\ error' # ""
              /\ isLoading' = FALSE
              /\ UNCHANGED <<mapMarkers, mapHeat>>]_vars

\* a response without fire_detections has been handled while markers and
\* a heatmap were on the map
C28_Witness ==
    /\ \E r \in 1..Len(reqs) : reqs[r].status = "nofield"
    /\ error = noFieldError
    /\ ~isLoading
    /\ mapMarkers # {}
    /\ mapHeat # {}

\* some speech-recognition session is started and not stopped
sessionActive == \E i \in 1..Len(recs) : recs[i].status = "listening"

\* C29: whenever isListening is true a speech-recognition session is
\* active (started and not stopped), and no step stops a session while
\* leaving isListening true: in particular not the effect that re-runs
\* when toggleListening has set isListening.
C29_ListeningMeansActiveSession ==
    /\ [](isListening => sessionActive)
    /\ [][(\E i \in 1..Len(recs) :
              recs[i].status = "listening" /\ recs'[i].status = "stopping")
             => ~isListening']_vars

\* the observations in an array of logs, by the order of logging
seqsOf(ls) == {ls[i].seq : i \in 1..Len(ls)}

\* C30: a run of syncObservations marks as synced exactly the logs its own
\* getUnsyncedLogs call returned, and that call returns every unsynced
\* log; a log is synced only if some run uploaded it, so an observation
\* logged while a run awaits its upload stays unsynced; no log is dropped
\* or altered, and a synced log never becomes unsynced: for every
\* interleaving of logObservation and two overlapping runs.
C30_SyncLosesNothing ==
    /\ [](\A k \in 1..Len(logs) : logs[k].synced => logs[k].seq \in uploaded)
    /\ [][\A s \in Runs :
             /\ (syncs[s].pc = "uploading" /\ syncs'[s].pc = "idle") =>
                    \A k \in 1..Len(logs) :
                        logs'[k].synced <=>
                            (logs[k].synced \/ logs[k].seq \in seqsOf(syncs[s].logs))
             /\ (syncs[s].pc = "idle" /\ syncs'[s].pc = "fetched") =>
                    seqsOf(syncs'[s].logs) =
                        {logs[k].seq : k \in {j \in 1..Len(logs) : ~logs[j].synced}}]_vars
    /\ [][/\ Len(logs') >= Len(logs)
          /\ \A k \in 1..Len(logs) :
                 /\ logs'[k].seq = logs[k].seq
                 /\ logs'[k].obs = logs[k].obs
                 /\ logs[k].synced => logs'[k].synced]_vars

\* a run has marked a log as synced while an observation logged during
\* its upload is unsynced and not uploaded, and the other run is in its
\* upload
C30_Witness ==
    /\ \E k, j \in 1..Len(logs) :
           /\ logs[k].synced
           /\ ~logs[j].synced
           /\ logs[j].seq \notin uploaded
           /\ logs[j].ref < logs[k].ref
           /\ logs[j].obs = logs[k].obs
    /\ \E s \in Runs : syncs[s].pc = "uploading"

TypeOK ==
    /\ phase \in {"unmounted", "mounted", "crashed"}
    /\ bounds \in Views \cup {NoBounds}
    /\ Cardinality(timers) <= 1

====
